---- MODULE Spec2Model ----
(***************************************************************************)
(* A model of the resumable enrichment pipeline of                         *)
(* comprehensive_pipeline.py: process_single_dataset and the stages it     *)
(* sequences, enrich_with_clado with its batch loop, submit_bulk_job,      *)
(* poll_job_status, wait_for_job_completion, and the checkpoint store      *)
(* (save_checkpoint, load_checkpoint, get_latest_checkpoint,               *)
(* cleanup_old_checkpoints).  One dataset is run by one process at a time; *)
(* the process may be interrupted at any await or statement boundary and   *)
(* started again.                                                          *)
(***************************************************************************)
EXTENDS Integers, Sequences, FiniteSets, TLC

(***************************************************************************)
(* Bounds of the model.  MAX_URLS_PER_BATCH and MAX_POLL_TIME stand for    *)
(* the program's 500 and 3600, scaled down so that several batches and a   *)
(* polling timeout occur within a few rows and a few polls.                *)
(***************************************************************************)
MaxRows == 3
MaxRuns == 2
MaxFaults == 1
MAX_URLS_PER_BATCH == 2
MAX_POLL_TIME == 10
POLL_INTERVAL == 5

(***************************************************************************)
(* Data.  A dataframe is a record of its column names, its rows and, as a  *)
(* history field that rides with the data, the log of the batches the      *)
(* enrichment pass that produced it has settled.  An email column holds    *)
(* the list of its addresses (the program joins them with "; " and splits  *)
(* them again at ";").                                                     *)
(***************************************************************************)
NoUrl == "nan"
NoDf == [none |-> TRUE]

Min(a, b) == IF a < b THEN a ELSE b

Range(s) == {s[i] : i \in DOMAIN s}

RECURSIVE Concat(_)
Concat(ss) == IF ss = <<>> THEN <<>> ELSE Head(ss) \o Concat(Tail(ss))

Urls == {"u1", "u2", "u3", "u4", "u5"}
UrlOfRow(i) == CASE i = 1 -> "u1" [] i = 2 -> "u2" [] i = 3 -> "u3"
                 [] i = 4 -> "u4" [] OTHER -> "u5"

\* The columns of the CSV files of the model: one of the old email columns,
\* with or without one of the LinkedIn columns.
InputColumnSets == {{"Work Email", "LinkedIn Profile"}, {"Work Email"}}

\* The CSV files: up to MaxRows rows, each with its own profile URL or none.
InputUrlLists ==
    UNION {{s \in [1..n -> Urls \cup {NoUrl}] :
               \A i \in 1..n : s[i] \in {NoUrl, UrlOfRow(i)}} : n \in 0..MaxRows}

Inputs == [cols : InputColumnSets, urls : InputUrlLists]

NewRow(u) == [url |-> u, status |-> "", work |-> <<>>, personal |-> <<>>,
              phone |-> <<>>, best |-> "none"]

\* pd.read_csv(file_path)
read_csv(inp) ==
    [cols |-> inp.cols,
     rows |-> [i \in 1..Len(inp.urls) |-> NewRow(inp.urls[i])],
     log  |-> <<>>]

(***************************************************************************)
(* Email classification: an address is known by its class.                 *)
(***************************************************************************)
Emails == {"p@gmail.com", "w@corp.com", "e@mit.edu"}

is_edu_email(e) == e = "e@mit.edu"

is_personal_email(e) == e = "p@gmail.com" \/ is_edu_email(e)

prioritize_email(e) ==
    IF e = "none" THEN 999
    ELSE IF is_personal_email(e) /\ ~is_edu_email(e) THEN 1
    ELSE IF is_edu_email(e) THEN 3
    ELSE 2

(***************************************************************************)
(* The stages that are pure transformations of the dataframe.              *)
(***************************************************************************)
EmailColumnsToRemove ==
    {"Find work email", "Find Work Email", "Find Work Email (2)",
     "Find work email (2)", "Find work email (3)", "Find Work Email (3)",
     "Find email", "Work Email"}

clean_existing_email_columns(df) ==
    [df EXCEPT !.cols = @ \ EmailColumnsToRemove]

PossibleLinkedInCols ==
    <<"LinkedIn Profile", "LinkedIn URL", "linkedin_url", "LinkedIn">>

\* The first of the possible LinkedIn columns the dataframe has, or "none".
LinkedInColumn(df) ==
    LET hits == {i \in DOMAIN PossibleLinkedInCols :
                    PossibleLinkedInCols[i] \in df.cols}
    IN  IF hits = {} THEN "none"
        ELSE PossibleLinkedInCols[CHOOSE i \in hits : \A j \in hits : i <= j]

NewColumns ==
    {"Enrichment Status", "Work Email (Clado)", "Personal Email (Clado)",
     "Phone (Clado)"}

filter_people_with_emails(df) ==
    [df EXCEPT !.rows =
        SelectSeq(@, LAMBDA r : r.work # <<>> \/ r.personal # <<>>)]

\* process_email_field: the personal and the corporate addresses of a field.
PersonalOf(field) == SelectSeq(field, LAMBDA e : is_personal_email(e))
CorporateOf(field) == SelectSeq(field, LAMBDA e : ~is_personal_email(e))

apply_corporate_email_filtering(df) ==
    [df EXCEPT !.rows =
        [i \in DOMAIN @ |->
            IF PersonalOf(@[i].work) \o PersonalOf(@[i].personal) # <<>>
            THEN [@[i] EXCEPT !.work = PersonalOf(@),
                              !.personal = PersonalOf(@)]
            ELSE @[i]]]

\* select_best_email: the first address of the lowest priority number (the
\* sort is stable), or "none" for an empty list.
select_best_email(emails) ==
    IF emails = <<>> THEN "none"
    ELSE LET best == CHOOSE i \in DOMAIN emails :
                        \A j \in DOMAIN emails :
                            \/ prioritize_email(emails[i]) < prioritize_email(emails[j])
                            \/ /\ prioritize_email(emails[i]) = prioritize_email(emails[j])
                               /\ i <= j
         IN  emails[best]

consolidate_to_one_email_per_person(df) ==
    [df EXCEPT !.cols = @ \cup {"Consolidated_Email"},
               !.rows = [i \in DOMAIN df.rows |->
                           [df.rows[i] EXCEPT !.best =
                               select_best_email(df.rows[i].work
                                                 \o df.rows[i].personal)]]]

(***************************************************************************)
(* The enrichment stage's data operations.                                 *)
(***************************************************************************)
\* As valid_urls, but without the test of the identifier: every row is listed.
ValidUrlsWithMissing(df) == [i \in DOMAIN df.rows |-> df.rows[i].url]

\* The rows' URLs that are neither NaN nor empty, in row order.
ValidUrls(df) ==
    LET withUrl == SelectSeq(df.rows, LAMBDA r : r.url # NoUrl /\ r.url # "")
    IN  [i \in DOMAIN withUrl |-> withUrl[i].url]

\* url_to_index[u]: the last row that carries u.
UrlToIndex(df, u) ==
    CHOOSE i \in DOMAIN df.rows :
        /\ df.rows[i].url = u
        /\ \A j \in DOMAIN df.rows : df.rows[j].url = u => j <= i

InUrlToIndex(df, u) == \E i \in DOMAIN ValidUrls(df) : ValidUrls(df)[i] = u

\* The new columns, all empty, and the status of the rows without a URL.
InitEnrichColumns(df) ==
    [df EXCEPT !.cols = @ \cup NewColumns,
               !.log = <<>>,
               !.rows = [i \in DOMAIN df.rows |->
                    [df.rows[i] EXCEPT
                        !.status = IF df.rows[i].url # NoUrl /\ df.rows[i].url # ""
                                   THEN "" ELSE "No LinkedIn URL",
                        !.work = <<>>, !.personal = <<>>, !.phone = <<>>]]]

\* A faulty batch end, one identifier too far: the batches would overlap.
BatchEndOverlapping(start, n) == Min(start + MAX_URLS_PER_BATCH + 1, n)

\* batch_end = min(batch_start + MAX_URLS_PER_BATCH, len(valid_urls))
BatchEnd(start, n) == Min(start + MAX_URLS_PER_BATCH, n)

\* batch_urls = valid_urls[batch_start:batch_end]
BatchUrls(valid, start) == SubSeq(valid, start + 1, BatchEnd(start, Len(valid)))

\* for url in batch_urls: df.loc[url_to_index[url], 'Enrichment Status'] = s
MarkBatch(df, urls, s) ==
    [df EXCEPT !.rows = [i \in DOMAIN df.rows |->
        IF \E k \in DOMAIN urls :
              InUrlToIndex(df, urls[k]) /\ UrlToIndex(df, urls[k]) = i
        THEN [df.rows[i] EXCEPT !.status = s]
        ELSE df.rows[i]]]

\* The values of a list of contact entries, in order.
ContactValues(contacts) == [i \in DOMAIN contacts |-> contacts[i].value]

ErrorStatus(e) ==
    CASE e = "missing" -> "Error: Unknown error"
      [] e = "Profile not found" -> "Error: Profile not found"
      [] OTHER -> "Error: other"

\* parse_bulk_result applied to row r: the columns it returns overwrite the
\* row's; a failed result returns the status alone.
ApplyParsed(r, result) ==
    IF ~result.success
    THEN [r EXCEPT !.status = ErrorStatus(result.error)]
    ELSE [r EXCEPT
            !.work = ContactValues(SelectSeq(result.contacts,
                        LAMBDA c : c.type = "email" /\ c.subType = "work")),
            !.personal = ContactValues(SelectSeq(result.contacts,
                        LAMBDA c : c.type = "email" /\ c.subType # "work")),
            !.phone = ContactValues(SelectSeq(result.contacts,
                        LAMBDA c : c.type = "phone")),
            !.status = IF result.contacts # <<>> THEN "Success"
                       ELSE "No contacts found"]

\* The merge loop over job_results['results'], in the order of the list.
RECURSIVE MergeResults(_, _)
MergeResults(df, results) ==
    IF results = <<>> THEN df
    ELSE LET res == Head(results)
             u == res.linkedin_url
         IN  MergeResults(
                IF u # "" /\ InUrlToIndex(df, u)
                THEN [df EXCEPT !.rows[UrlToIndex(df, u)] = ApplyParsed(@, res)]
                ELSE df,
                Tail(results))

(***************************************************************************)
(* The remote service's answers.                                           *)
(***************************************************************************)
\* Submission outcomes: the HTTP status, 0 for a network exception; a 200
\* response carries a job id or none.
SubmitResponses ==
    {[code |-> 200, has_id |-> TRUE], [code |-> 200, has_id |-> FALSE],
     [code |-> 401, has_id |-> FALSE], [code |-> 402, has_id |-> FALSE],
     [code |-> 429, has_id |-> FALSE], [code |-> 500, has_id |-> FALSE],
     [code |-> 0, has_id |-> FALSE]}

OkResult(u) ==
    [linkedin_url |-> u, success |-> TRUE, error |-> "missing",
     contacts |-> <<[type |-> "email", subType |-> "work", value |-> "w@corp.com"]>>]

FailResult(u) ==
    [linkedin_url |-> u, success |-> FALSE, error |-> "Profile not found",
     contacts |-> <<>>]

\* The result lists a job of the given URLs may report: per URL, in order, a
\* success, a failure, or no entry.
RECURSIVE ResultLists(_)
ResultLists(urls) ==
    IF urls = <<>> THEN {<<>>}
    ELSE LET rest == ResultLists(Tail(urls))
         IN  rest \cup {<<OkResult(Head(urls))>> \o r : r \in rest}
                  \cup {<<FailResult(Head(urls))>> \o r : r \in rest}

NoBody == [empty |-> TRUE, status |-> "missing", results |-> <<>>]

\* The JSON bodies of a 200 poll response: the empty object, an object with a
\* status (or without one, but with other keys), with results when terminal.
PollBodies(urls) ==
    {NoBody}
    \cup {[empty |-> FALSE, status |-> st, results |-> <<>>] :
             st \in {"submitted", "processing", "missing"}}
    \cup {[empty |-> FALSE, status |-> st, results |-> r] :
             st \in {"completed", "error"}, r \in ResultLists(urls)}

PollResponses(urls) ==
    {[code |-> c, body |-> NoBody] : c \in {404, 429, 500, 0}}
    \cup {[code |-> 200, body |-> b] : b \in PollBodies(urls)}

\* A faulty acceptance test: a 402 response taken for a job handle.
AcceptedThoughUnpaid(resp) == resp.code \in {200, 402}

\* submit_bulk_job: the job id (TRUE: a usable one) only for a 200 response.
Accepted(resp) == resp.code = 200 /\ resp.has_id

\* poll_job_status returns the body of a 200 response and None otherwise;
\* wait_for_job_completion gives up on "not status_data": None or an empty
\* object.
PollGivesUp(resp) == resp.code # 200 \/ resp.body.empty

\* status_data.get('status', 'unknown')
StatusOf(body) == IF body.status = "missing" THEN "unknown" ELSE body.status

IsTerminal(status) == status \in {"completed", "error"}

\* A faulty timeout test: one polling interval too late.
TimedOutLate(el) == el > MAX_POLL_TIME + POLL_INTERVAL

\* time.time() - start_time > MAX_POLL_TIME
TimedOut(el) == el > MAX_POLL_TIME

(***************************************************************************)
(* The checkpoint store: the artifacts of the dataset in the order of      *)
(* their modification times, the oldest first.  A key is the step of the   *)
(* file name: an ordinal, "3_batch_<n>" or "error_<time>".                 *)
(***************************************************************************)
Ord(k) == [kind |-> "ord", n |-> k]
BatchKey(b) == [kind |-> "3_batch", n |-> b]
ErrorKey(t) == [kind |-> "error", n |-> t]

NoCkpt == [none |-> TRUE]

\* A variant that opens one file for every key: each save replaces the store.
save_checkpoint_truncating(store, key, frame, extra) ==
    <<[key |-> key, step |-> key, dataframe |-> frame, extra |-> extra]>>

\* save_checkpoint: one artifact per key, rewritten in place.
save_checkpoint(store, key, frame, extra) ==
    SelectSeq(store, LAMBDA c : c.key # key)
        \o <<[key |-> key, step |-> key, dataframe |-> frame, extra |-> extra]>>

HasCheckpoint(store, key) == \E i \in DOMAIN store : store[i].key = key

load_checkpoint(store, key) ==
    IF HasCheckpoint(store, key)
    THEN store[CHOOSE i \in DOMAIN store : store[i].key = key]
    ELSE NoCkpt

\* A variant that reads the leading digits of "3_batch_2" as a step number.
ParsesLeadingDigits(key) == key.kind \in {"ord", "3_batch"}

\* int(file.split('_step_')[1].split('.pkl')[0]) succeeds for an ordinal step.
ParsesAsInt(key) == key.kind = "ord"

StepNumbers(store) ==
    {store[i].key.n : i \in {j \in DOMAIN store : ParsesAsInt(store[j].key)}}

\* A variant that selects the lowest step number.
MinOf(S) == CHOOSE x \in S : \A y \in S : x <= y

MaxOf(S) == CHOOSE x \in S : \A y \in S : y <= x

get_latest_checkpoint(store) ==
    IF StepNumbers(store) = {} THEN NoCkpt
    ELSE load_checkpoint(store, Ord(MaxOf(StepNumbers(store))))

\* What open(checkpoint_file, 'wb') followed by a pickle.dump that does not
\* complete leaves behind: the file exists and pickle.load raises on it.
Unreadable == [torn |-> TRUE]

TornWrite(store, key) == save_checkpoint(store, key, Unreadable, "none")

\* What a save_checkpoint call that raises leaves of the store: it failed
\* before the file was opened, or after.
FailedWrite(store, key) == {store, TornWrite(store, key)}

\* load_checkpoint raises: the file exists and pickle.load fails.
LoadRaises(store, key) ==
    HasCheckpoint(store, key) /\ load_checkpoint(store, key).dataframe = Unreadable

\* get_latest_checkpoint raises what its load_checkpoint call raises.
LatestRaises(store) ==
    StepNumbers(store) # {} /\ LoadRaises(store, Ord(MaxOf(StepNumbers(store))))

\* A variant that sorts by modification time in ascending order: the oldest
\* keep_latest artifacts remain.
cleanup_keeping_oldest(store, keep_latest) ==
    IF Len(store) <= keep_latest THEN store
    ELSE SubSeq(store, 1, keep_latest)

\* cleanup_old_checkpoints: the keep_latest most recently modified remain.
cleanup_old_checkpoints(store, keep_latest) ==
    IF Len(store) <= keep_latest THEN store
    ELSE SubSeq(store, Len(store) - keep_latest + 1, Len(store))

(***************************************************************************)
(* State.                                                                  *)
(***************************************************************************)
VARIABLES
    input,          \* the dataset's CSV file
    ckpt,           \* the checkpoint store
    output,         \* the final CSV file, NoDf until it is written
    service,        \* the terminal answer the service has computed per batch
    faults,         \* checkpoint writes that have failed so far
    runs,           \* processes started so far
    pc,             \* where the running process is; "idle": none runs
    step,           \* process_single_dataset's step
    df,             \* the working dataframe
    batch_start,    \* enrich_with_clado's loop variable
    batch_number,
    tracked,        \* job ids a wait_for_job_completion call is tracking
    inflight,       \* requests sent and not yet answered
    elapsed,        \* time.time() - start_time of the current wait
    \* history variables
    resumed,        \* the step of the checkpoint this run resumed from, or 0
    executed,       \* the stages this run has entered, in order
    sent,           \* the batches this run has submitted, in order
    polls,          \* polls issued for the tracked job
    lastSubmit,     \* the response to the last submission of this run
    lastPoll,       \* the response to the last poll of the tracked job
    settled,        \* how the last batch of this run was settled
    polled,         \* batch numbers this run has polled a job of
    returnedJobs,   \* jobs whose wait has returned
    doneEarlier,    \* batches whose job an earlier run saw completed
    lastOrdinal,    \* the ordinal step of the checkpoint written last, 0: none
    signalled,      \* an interrupt was delivered to the current or last process
    sweepEnd,       \* how main's loop over the datasets ended in the last process
    total_urls,     \* wait_for_job_completion's argument
    last_processed, \* wait_for_job_completion's locals
    next_milestone,
    notices         \* the processed counts of the progress lines printed

envVars == <<input, service>>
sweepVars == <<signalled, sweepEnd>>
progressVars == <<total_urls, last_processed, next_milestone, notices>>
enrichVars == <<batch_start, batch_number, tracked, inflight, elapsed>>
histVars == <<sent, polls, lastSubmit, lastPoll, settled, polled, returnedJobs,
              doneEarlier>>
vars == <<input, ckpt, output, service, faults, runs, pc, step, df, batch_start, batch_number,
          tracked, inflight, elapsed, resumed, executed, sent, polls,
          lastSubmit, lastPoll, settled, polled, returnedJobs, doneEarlier,
          lastOrdinal, signalled, sweepEnd, total_urls, last_processed,
          next_milestone, notices>>

NoResp == [code |-> -1]
NoSettled == [how |-> "none", urls |-> <<>>, polls |-> 0]

Init ==
    /\ input \in Inputs
    /\ ckpt = <<>>
    /\ output = NoDf
    /\ service = <<>>
    /\ faults = 0
    /\ runs = 0
    /\ pc = "idle"
    /\ step = 0
    /\ df = NoDf
    /\ batch_start = 0
    /\ batch_number = 0
    /\ tracked = {}
    /\ inflight = {}
    /\ elapsed = 0
    /\ resumed = 0
    /\ executed = <<>>
    /\ sent = <<>>
    /\ polls = 0
    /\ lastSubmit = NoResp
    /\ lastPoll = NoResp
    /\ settled = NoSettled
    /\ polled = {}
    /\ returnedJobs = {}
    /\ doneEarlier = {}
    /\ lastOrdinal = 0
    /\ signalled = FALSE
    /\ sweepEnd = "none"
    /\ total_urls = 0
    /\ last_processed = 0
    /\ next_milestone = 0
    /\ notices = <<>>

(***************************************************************************)
(* process_single_dataset.                                                 *)
(***************************************************************************)
\* The batches whose job the enrichment pass of a dataframe saw completed.
CompletedIn(frame) ==
    IF frame = NoDf THEN {}
    ELSE {frame.log[i].urls :
            i \in {j \in DOMAIN frame.log : frame.log[j].status = "completed"}}

\* What a process loses when it ends: its locals and the histories of the run.
ResetRun ==
    /\ step' = 0
    /\ df' = NoDf
    /\ batch_start' = 0
    /\ batch_number' = 0
    /\ tracked' = {}
    /\ inflight' = {}
    /\ elapsed' = 0
    /\ resumed' = 0
    /\ executed' = <<>>
    /\ sent' = <<>>
    /\ polls' = 0
    /\ lastSubmit' = NoResp
    /\ lastPoll' = NoResp
    /\ settled' = NoSettled
    /\ polled' = {}
    /\ returnedJobs' = {}
    /\ doneEarlier' = doneEarlier \cup CompletedIn(df)

\* The step a run found by get_latest_checkpoint continues after.
ResumeStep(latest) == latest.step.n

\* A faulty test of completeness: step 7 is taken for unfinished.
AlreadyCompleteAfterAnalysis(k) == k >= 8

\* "if step >= 7": the dataset is already processed completely.
AlreadyComplete(k) == k >= 7

\* A process starts.  main lists the datasets with their latest checkpoints,
\* outside any try block: if get_latest_checkpoint raises there, main ends
\* with the exception before any dataset is processed.  Otherwise
\* process_single_dataset: get_latest_checkpoint, and the branch on what it
\* returns.
Start ==
    /\ pc = "idle"
    /\ runs < MaxRuns
    /\ runs' = runs + 1
    /\ signalled' = FALSE
    /\ IF LatestRaises(ckpt)
       THEN /\ sweepEnd' = "crashed"
            /\ UNCHANGED <<pc, step, df, resumed>>
       ELSE /\ sweepEnd' = "none"
            /\ LET latest == get_latest_checkpoint(ckpt)
               IN  IF latest # NoCkpt
                   THEN /\ step' = ResumeStep(latest)
                        /\ df' = latest.dataframe
                        /\ resumed' = ResumeStep(latest)
                        /\ pc' = IF AlreadyComplete(ResumeStep(latest))
                                 THEN "returned" ELSE "step3"
                   ELSE /\ step' = 0
                        /\ df' = NoDf
                        /\ resumed' = 0
                        /\ pc' = "step1"
    /\ UNCHANGED <<envVars, ckpt, output, faults, enrichVars, executed, histVars>>
    /\ UNCHANGED progressVars
    /\ UNCHANGED lastOrdinal

\* The outcomes of a checkpoint write the model allows: it succeeds, or, while
\* the budget of write failures lasts, it raises.
WriteOutcomes == IF faults < MaxFaults THEN BOOLEAN ELSE {TRUE}

\* How the error checkpoint write of the except block may end, spent being
\* the write failures this step has used up already: it succeeds, it raises,
\* or an interrupt arrives during it.  The bare "except: pass" around it
\* swallows the last two alike.
ErrorSaveOutcomes(spent) ==
    {"saved", "interrupted"}
        \cup (IF faults + spent < MaxFaults THEN {"failed"} ELSE {})

\* The except block of process_single_dataset, entered with the store as the
\* failed statement left it: the error checkpoint with the exception's text
\* and the dataframe, then the function returns.
ErrorExit(store, frame, reason, spent) ==
    \E how \in ErrorSaveOutcomes(spent) :
        /\ ckpt' = IF how = "saved"
                   THEN save_checkpoint(store, ErrorKey(runs), frame, reason)
                   ELSE store
        /\ faults' = faults + spent + (IF how = "failed" THEN 1 ELSE 0)
        /\ signalled' = (signalled \/ how = "interrupted")
        /\ pc' = "returned"
        /\ UNCHANGED <<lastOrdinal, sweepEnd>>

\* save_checkpoint(dataset_name, key, frame) in the try block of
\* process_single_dataset: it succeeds and the run goes on, or it raises and
\* the except block is entered.
SaveThen(key, frame, nextpc) ==
    \E saved \in WriteOutcomes :
        IF saved
        THEN /\ ckpt' = save_checkpoint(ckpt, key, frame, "none")
             /\ lastOrdinal' = key.n
             /\ pc' = nextpc
             /\ UNCHANGED <<faults, sweepVars>>
        ELSE \E left \in FailedWrite(ckpt, key) :
                ErrorExit(left, frame, "write failed", 1)

\* Step 1: load the dataset.
Step1 ==
    /\ pc = "step1"
    /\ executed' = Append(executed, 1)
    /\ df' = read_csv(input)
    /\ SaveThen(Ord(1), read_csv(input), "step2")
    /\ UNCHANGED <<envVars, output, runs, step, enrichVars, resumed, histVars>>
    /\ UNCHANGED progressVars

\* Step 2: clean the existing email columns.
Step2 ==
    /\ pc = "step2"
    /\ executed' = Append(executed, 2)
    /\ df' = clean_existing_email_columns(df)
    /\ SaveThen(Ord(2), clean_existing_email_columns(df), "step3")
    /\ step' = IF pc' = "step3" THEN 2 ELSE step
    /\ UNCHANGED <<envVars, output, runs, enrichVars, resumed, histVars>>
    /\ UNCHANGED progressVars

\* A faulty guard of the enrichment stage: entered again after checkpoint 3.
NeedsEnrichUntilFiltered(k) == k < 4

\* "if step < 3": the enrichment stage is still to run.
NeedsEnrich(k) == k < 3

\* Step 3 up to the first submission: the LinkedIn column, then
\* enrich_with_clado's checkpoint lookup, column initialisation and URL scan.
Step3 ==
    /\ pc = "step3"
    /\ IF ~NeedsEnrich(step)
       THEN /\ pc' = "step4"
            /\ UNCHANGED <<df, executed, batch_start, batch_number>>
       ELSE IF LinkedInColumn(df) = "none"
       THEN /\ pc' = "returned"
            /\ UNCHANGED <<df, executed, batch_start, batch_number>>
       ELSE /\ executed' = Append(executed, 3)
            /\ IF HasCheckpoint(ckpt, Ord(3))
               THEN /\ df' = load_checkpoint(ckpt, Ord(3)).dataframe
                    /\ pc' = "step4"
                    /\ UNCHANGED <<batch_start, batch_number>>
               ELSE /\ df' = InitEnrichColumns(df)
                    /\ IF ValidUrls(df) = <<>>
                       THEN /\ pc' = "step4"
                            /\ UNCHANGED <<batch_start, batch_number>>
                       ELSE /\ pc' = "submit"
                            /\ batch_start' = 0
                            /\ batch_number' = 1
    /\ UNCHANGED <<envVars, ckpt, output, faults, runs, step, tracked, inflight,
                   elapsed, resumed, histVars>>
    /\ UNCHANGED progressVars
    /\ UNCHANGED <<lastOrdinal, sweepVars>>

(***************************************************************************)
(* enrich_with_clado's batch loop.                                         *)
(***************************************************************************)
CurrentBatch == BatchUrls(ValidUrls(df), batch_start)

\* The id the service gives the job of this run's current batch.
CurrentJob == <<runs, batch_number>>

\* A faulty loop step, one identifier too far: an identifier is skipped.
NextBatchStartSkipping(start) == start + MAX_URLS_PER_BATCH + 1

\* The next iteration of "for batch_start in range(0, len(valid_urls),
\* MAX_URLS_PER_BATCH)", or the end of the loop.
NextBatchStart(start) == start + MAX_URLS_PER_BATCH

\* A faulty end of an iteration: the loop is left instead of continued.
LeaveLoop ==
    /\ batch_number' = batch_number + 1
    /\ batch_start' = batch_start + MAX_URLS_PER_BATCH
    /\ pc' = "enrich_end"

ContinueLoop ==
    /\ batch_number' = batch_number + 1
    /\ batch_start' = NextBatchStart(batch_start)
    /\ pc' = IF NextBatchStart(batch_start) < Len(ValidUrls(df))
             THEN "submit" ELSE "enrich_end"

Logged(frame, how, status, results) ==
    [frame EXCEPT !.log = Append(@, [urls |-> CurrentBatch, how |-> how,
                                      status |-> status, results |-> results])]

\* A faulty return of the wait: the job stays tracked.
UntrackNothing(jobs, job) == jobs

\* A wait_for_job_completion call has returned: its job is tracked no more.
Untrack(jobs, job) == jobs \ {job}

\* The response to a request has arrived.
Answered(requests, req) == requests \ {req}

\* "job_id = await submit_bulk_job(session, batch_urls)": the request is sent.
Submit ==
    /\ pc = "submit"
    /\ inflight' = inflight \cup {[req |-> "submit", job |-> CurrentJob]}
    /\ sent' = Append(sent, CurrentBatch)
    /\ lastSubmit' = NoResp
    /\ lastPoll' = NoResp
    /\ settled' = NoSettled
    /\ pc' = "await_submit"
    /\ UNCHANGED <<envVars, ckpt, output, faults, runs, step, df, batch_start,
                   batch_number, tracked, elapsed, resumed, executed, polls,
                   polled, returnedJobs, doneEarlier>>
    /\ UNCHANGED progressVars
    /\ UNCHANGED <<lastOrdinal, sweepVars>>

\* The submission is answered: a job id starts the wait, anything else fails
\* the batch and the loop continues.
SubmitRecv ==
    /\ pc = "await_submit"
    /\ \E resp \in SubmitResponses :
          /\ lastSubmit' = resp
          /\ inflight' = Answered(inflight, [req |-> "submit", job |-> CurrentJob])
          /\ IF Accepted(resp)
             THEN /\ tracked' = tracked \cup {CurrentJob}
                  /\ elapsed' = 0
                  /\ polls' = 0
                  /\ pc' = "wait"
                  /\ UNCHANGED <<df, batch_start, batch_number, settled>>
             ELSE /\ df' = Logged(MarkBatch(df, CurrentBatch,
                                            "Error: Batch submission failed"),
                                  "submit_failed", "none", <<>>)
                  /\ settled' = [how |-> "submit_failed", urls |-> CurrentBatch,
                                 polls |-> 0]
                  /\ ContinueLoop
                  /\ UNCHANGED <<tracked, elapsed, polls>>
    /\ UNCHANGED <<envVars, ckpt, output, faults, runs, step, resumed, executed,
                   sent, lastPoll, polled, returnedJobs, doneEarlier>>
    /\ UNCHANGED progressVars
    /\ UNCHANGED <<lastOrdinal, sweepVars>>

\* The head of wait_for_job_completion's loop: the timeout check, then the
\* poll request.  A timeout returns None and the batch is marked failed.
Wait ==
    /\ pc = "wait"
    /\ IF TimedOut(elapsed)
       THEN /\ tracked' = Untrack(tracked, CurrentJob)
            /\ returnedJobs' = returnedJobs \cup {CurrentJob}
            /\ df' = Logged(MarkBatch(df, CurrentBatch, "Error: Job failed"),
                            "job_failed", "none", <<>>)
            /\ settled' = [how |-> "timeout", urls |-> CurrentBatch,
                           polls |-> polls]
            /\ lastPoll' = NoResp
            /\ elapsed' = 0
            /\ polls' = 0
            /\ ContinueLoop
            /\ UNCHANGED <<inflight, polled>>
       ELSE /\ inflight' = inflight \cup {[req |-> "poll", job |-> CurrentJob]}
            /\ polls' = polls + 1
            /\ polled' = polled \cup {batch_number}
            /\ pc' = "await_poll"
            /\ UNCHANGED <<df, batch_start, batch_number, tracked, returnedJobs,
                           settled, lastPoll, elapsed>>
    /\ UNCHANGED <<envVars, ckpt, output, faults, runs, step, resumed,
                   executed, sent, lastSubmit, doneEarlier>>
    /\ UNCHANGED progressVars
    /\ UNCHANGED <<lastOrdinal, sweepVars>>

\* The answers the service may give to a poll of the job of a batch.  Its
\* terminal answer, once computed, is the same whenever the batch is asked
\* about again; errors and the time a job takes vary.
PollAnswers(urls) ==
    {r \in PollResponses(urls) :
        (r.code = 200 /\ IsTerminal(r.body.status) /\ urls \in DOMAIN service)
            => r.body = service[urls]}

\* "if batch_number % 2 == 0": an intermediate checkpoint is due.
CheckpointDue(n) == n % 2 = 0

\* The poll is answered with one of the given answers.  No usable status data: the wait returns None and the
\* batch is marked failed.  A terminal status: the wait returns the data, the
\* results are merged and, every second batch, an intermediate checkpoint is
\* written; if that write raises, the batch's except block marks the batch.
\* Any other status: sleep POLL_INTERVAL and poll again.
PollRecvOf(answers) ==
    /\ \E resp \in answers :
          /\ lastPoll' = resp
          /\ inflight' = Answered(inflight, [req |-> "poll", job |-> CurrentJob])
          /\ IF PollGivesUp(resp)
             THEN /\ tracked' = Untrack(tracked, CurrentJob)
                  /\ returnedJobs' = returnedJobs \cup {CurrentJob}
                  /\ df' = Logged(MarkBatch(df, CurrentBatch, "Error: Job failed"),
                                  "job_failed", "none", <<>>)
                  /\ settled' = [how |-> IF resp.code = 404 THEN "expired"
                                         ELSE "poll_failed",
                                 urls |-> CurrentBatch, polls |-> polls]
                  /\ elapsed' = 0
                  /\ ContinueLoop
                  /\ UNCHANGED <<ckpt, faults, service>>
             ELSE IF IsTerminal(StatusOf(resp.body))
             THEN LET results == resp.body.results
                      merged == Logged(MergeResults(df, results), "merged",
                                       resp.body.status, results)
                      raised == Logged(MarkBatch(MergeResults(df, results),
                                                 CurrentBatch, "Error: write failed"),
                                       "merged_then_raised", resp.body.status,
                                       results)
                  IN  /\ tracked' = Untrack(tracked, CurrentJob)
                      /\ returnedJobs' = returnedJobs \cup {CurrentJob}
                      /\ service' = (CurrentBatch :> resp.body) @@ service
                      /\ \E saved \in IF CheckpointDue(batch_number)
                                      THEN WriteOutcomes ELSE {TRUE} :
                            IF saved
                            THEN /\ df' = merged
                                 /\ settled' = [how |-> "merged",
                                                urls |-> CurrentBatch,
                                                polls |-> polls]
                                 /\ ckpt' = IF CheckpointDue(batch_number)
                                            THEN save_checkpoint(ckpt,
                                                    BatchKey(batch_number),
                                                    merged, "none")
                                            ELSE ckpt
                                 /\ UNCHANGED faults
                            ELSE /\ df' = raised
                                 /\ settled' = [how |-> "merged_then_raised",
                                                urls |-> CurrentBatch,
                                                polls |-> polls]
                                 /\ faults' = faults + 1
                                 /\ ckpt' \in FailedWrite(ckpt,
                                                BatchKey(batch_number))
                      /\ ContinueLoop
                      /\ elapsed' = 0
             ELSE /\ elapsed' = elapsed + POLL_INTERVAL
                  /\ pc' = "wait"
                  /\ UNCHANGED <<ckpt, faults, service, df, batch_start,
                                 batch_number, tracked, returnedJobs, settled>>
    /\ polls' = IF pc' = "wait" THEN polls ELSE 0
    /\ UNCHANGED <<input, output, runs, step, resumed, executed, sent,
                   lastSubmit, polled, doneEarlier>>
    /\ UNCHANGED progressVars
    /\ UNCHANGED <<lastOrdinal, sweepVars>>

\* The poll of the tracked job is answered by the service.
PollRecv ==
    /\ pc = "await_poll"
    /\ PollRecvOf(PollAnswers(CurrentBatch))

\* After the loop: the enrichment checkpoint, then "return df".
EnrichEnd ==
    /\ pc = "enrich_end"
    /\ SaveThen(Ord(3), df, "step4")
    /\ lastSubmit' = NoResp
    /\ lastPoll' = NoResp
    /\ settled' = NoSettled
    /\ UNCHANGED <<envVars, output, runs, step, df, enrichVars, resumed, executed,
                   sent, polls, polled, returnedJobs, doneEarlier>>
    /\ UNCHANGED progressVars

(***************************************************************************)
(* The stages after the enrichment.                                        *)
(***************************************************************************)
\* "if step < k:" stage k, then its checkpoint; otherwise on to the next test.
StageThenSave(k, frame, nextpc) ==
    IF step < k
    THEN /\ executed' = Append(executed, k)
         /\ df' = frame
         /\ SaveThen(Ord(k), frame, nextpc)
    ELSE /\ pc' = nextpc
         /\ UNCHANGED <<ckpt, faults, df, executed, lastOrdinal, sweepVars>>

\* Step 4: filter people with emails.
Step4 ==
    /\ pc = "step4"
    /\ StageThenSave(4, filter_people_with_emails(df), "step5")
    /\ UNCHANGED <<envVars, output, runs, step, enrichVars, resumed, histVars>>
    /\ UNCHANGED progressVars

\* Step 5: corporate email filtering.
Step5 ==
    /\ pc = "step5"
    /\ StageThenSave(5, apply_corporate_email_filtering(df), "step6")
    /\ UNCHANGED <<envVars, output, runs, step, enrichVars, resumed, histVars>>
    /\ UNCHANGED progressVars

\* Step 6: one email per person.
Step6 ==
    /\ pc = "step6"
    /\ StageThenSave(6, consolidate_to_one_email_per_person(df), "step7")
    /\ UNCHANGED <<envVars, output, runs, step, enrichVars, resumed, histVars>>
    /\ UNCHANGED progressVars

\* Step 7: df.to_csv(output_file), then the checkpoint.
Step7 ==
    /\ pc = "step7"
    /\ StageThenSave(7, df, "step8")
    /\ output' = IF step < 7 THEN df ELSE output
    /\ UNCHANGED <<envVars, runs, step, enrichVars, resumed, histVars>>
    /\ UNCHANGED progressVars

\* analyze_final_results divides by the number of rows and by the number of
\* rows with a consolidated email.
AnalysisRaises(frame) ==
    \/ Len(frame.rows) = 0
    \/ \A i \in DOMAIN frame.rows : frame.rows[i].best = "none"

\* Step 8: the analysis report; a ZeroDivisionError goes to the except block,
\* which writes an error checkpoint.
Step8 ==
    /\ pc = "step8"
    /\ executed' = Append(executed, 8)
    /\ IF AnalysisRaises(df)
       THEN ErrorExit(ckpt, df, "division by zero", 0)
       ELSE /\ pc' = "returned"
            /\ UNCHANGED <<ckpt, faults, lastOrdinal, sweepVars>>
    /\ UNCHANGED <<envVars, output, runs, step, df, enrichVars, resumed, histVars>>
    /\ UNCHANGED progressVars

(***************************************************************************)
(* main: after process_single_dataset returns, the old checkpoints are     *)
(* cleaned up and the process ends.  An interrupt or a crash ends it at    *)
(* any point, without the cleanup.                                         *)
(***************************************************************************)
Returned ==
    /\ pc = "returned"
    /\ ckpt' = cleanup_old_checkpoints(ckpt, 2)
    /\ pc' = "idle"
    /\ sweepEnd' = "completed"
    /\ ResetRun
    /\ UNCHANGED <<envVars, output, faults, runs, signalled>>
    /\ UNCHANGED progressVars
    /\ UNCHANGED lastOrdinal

\* The checkpoint the process is about to write where it stands, if any.
DueKeys ==
    CASE pc = "step1" -> {Ord(1)}
      [] pc = "step2" -> {Ord(2)}
      [] pc = "enrich_end" -> {Ord(3)}
      [] pc = "step4" /\ step < 4 -> {Ord(4)}
      [] pc = "step5" /\ step < 5 -> {Ord(5)}
      [] pc = "step6" /\ step < 6 -> {Ord(6)}
      [] pc = "step7" /\ step < 7 -> {Ord(7)}
      [] pc = "await_poll" /\ CheckpointDue(batch_number) ->
            {BatchKey(batch_number)}
      [] OTHER -> {}

\* A KeyboardInterrupt that reaches main or asyncio.run: the process ends.
\* If it arrives while a checkpoint file is written, the file stays as it is.
Interrupt ==
    /\ pc # "idle"
    /\ pc' = "idle"
    /\ ckpt' \in {ckpt} \cup {TornWrite(ckpt, key) : key \in DueKeys}
    /\ signalled' = TRUE
    /\ sweepEnd' = "interrupted"
    /\ ResetRun
    /\ UNCHANGED <<envVars, output, faults, runs>>
    /\ UNCHANGED progressVars
    /\ UNCHANGED lastOrdinal

Next ==
    \/ Start
    \/ Step1
    \/ Step2
    \/ Step3
    \/ Submit
    \/ SubmitRecv
    \/ Wait
    \/ PollRecv
    \/ EnrichEnd
    \/ Step4
    \/ Step5
    \/ Step6
    \/ Step7
    \/ Step8
    \/ Returned
    \/ Interrupt

Spec == Init /\ [][Next]_vars

(***************************************************************************)
(* Properties.                                                             *)
(***************************************************************************)
Last(s) == s[Len(s)]

\* The pcs of enrich_with_clado's batch loop.
LoopPcs == {"submit", "await_submit", "wait", "await_poll"}

\* The highest ordinal step the dataset has a checkpoint of, 0 for none.
HighestOrdinal(store) ==
    IF StepNumbers(store) = {} THEN 0 ELSE MaxOf(StepNumbers(store))

\* The stage the process is about to execute, 0 when it is between runs, in a
\* test that skips a stage, or returning.
StageAt ==
    CASE pc = "step1" -> 1
      [] pc = "step2" -> 2
      [] pc = "step3" /\ NeedsEnrich(step) -> 3
      [] pc \in LoopPcs \cup {"enrich_end"} -> 3
      [] pc = "step4" /\ step < 4 -> 4
      [] pc = "step5" /\ step < 5 -> 5
      [] pc = "step6" /\ step < 6 -> 6
      [] pc = "step7" /\ step < 7 -> 7
      [] pc = "step8" -> 8
      [] OTHER -> 0

\* The batch loop with the remote answers of a given log, replayed on a
\* dataframe: what each settled batch did to the rows.
RECURSIVE ApplyLog(_, _)
ApplyLog(frame, log) ==
    IF log = <<>> THEN frame
    ELSE LET e == Head(log)
             after ==
                CASE e.how = "submit_failed" ->
                        MarkBatch(frame, e.urls, "Error: Batch submission failed")
                  [] e.how = "job_failed" ->
                        MarkBatch(frame, e.urls, "Error: Job failed")
                  [] e.how = "merged" -> MergeResults(frame, e.results)
                  [] OTHER ->
                        MarkBatch(MergeResults(frame, e.results), e.urls,
                                  "Error: write failed")
         IN  ApplyLog(after, Tail(log))

\* The final dataset of one uninterrupted run on the input, the batches of its
\* enrichment stage settled as the log tells.
UninterruptedRun(inp, log) ==
    LET cleaned == clean_existing_email_columns(read_csv(inp))
        enriched == [ApplyLog(InitEnrichColumns(cleaned), log) EXCEPT !.log = log]
    IN  consolidate_to_one_email_per_person(
            apply_corporate_email_filtering(
                filter_people_with_emails(enriched)))

\* C1: a run that resumed from the checkpoint of step 1, 2, 3, 4, 5 or 6 and
\* has written the final dataset has written the dataset one uninterrupted run
\* on the same input and the same remote answers writes.
ResumeCorrectness ==
    (resumed \in 1..6 /\ pc = "step8")
        => output = UninterruptedRun(input, output.log)

\* C2: the stages a run enters are consecutive and begin right after the step
\* of the checkpoint it resumed from (at stage 1 without a checkpoint): no
\* stage at or below that step is executed and none above it is skipped.
ResumesAtNextStage ==
    \A i \in DOMAIN executed : executed[i] = resumed + i

\* C3: the stage being executed is at most one past the highest ordinal
\* checkpoint of the dataset.
StageAtMostOnePastCheckpoint ==
    StageAt <= HighestOrdinal(ckpt) + 1

\* C4 as stated: no batch whose remote job an earlier run saw completed is
\* submitted again by a later run.
NoCompletedBatchResubmitted ==
    pc = "await_submit" => Last(sent) \notin doneEarlier

\* C4, amended: completed enrichment survives a restart at the granularity of
\* the enrichment checkpoint.  A run that resumed from a checkpoint of step 3
\* or later never enters the enrichment stage, submits nothing and starts
\* from exactly the checkpoint's dataset; a run that enters the batch loop
\* begins at the first batch with nothing merged, whatever earlier runs did.
EnrichmentSurvivesAtCheckpoint ==
    /\ resumed >= 3 =>
          /\ sent = <<>>
          /\ 3 \notin Range(executed)
          /\ pc \notin LoopPcs \cup {"enrich_end"}
          /\ pc = "step3" => df = get_latest_checkpoint(ckpt).dataframe
    /\ (pc = "submit" /\ batch_number = 1) =>
          /\ sent = <<>>
          /\ df.log = <<>>
          /\ \A i \in DOMAIN df.rows :
                df.rows[i].work = <<>> /\ df.rows[i].personal = <<>>

\* A run resumed after the enrichment checkpoint, with batches an earlier run
\* saw completed, is about to filter without having submitted anything.
ResumedPastEnrichment ==
    /\ resumed = 3
    /\ pc = "step4"
    /\ doneEarlier # {}
    /\ CompletedIn(df) = doneEarlier
    /\ sent = <<>>

\* C5: the batches submitted are, in order, consecutive slices of the valid
\* identifiers, each of 1 to MAX_URLS_PER_BATCH identifiers and all but the
\* last of exactly MAX_URLS_PER_BATCH; at the end of the loop they concatenate
\* to the whole list; the loop is not entered for an empty list, which yields
\* no submission.
BatchSplitting ==
    /\ \A i \in DOMAIN sent :
          /\ Len(sent[i]) >= 1
          /\ Len(sent[i]) <= MAX_URLS_PER_BATCH
          /\ i < Len(sent) => Len(sent[i]) = MAX_URLS_PER_BATCH
    /\ pc \in LoopPcs \cup {"enrich_end"} =>
          /\ ValidUrls(df) # <<>>
          /\ \E n \in 0..Len(ValidUrls(df)) :
                Concat(sent) = SubSeq(ValidUrls(df), 1, n)
    /\ pc = "enrich_end" => Concat(sent) = ValidUrls(df)
    /\ (StageAt = 4 /\ 3 \in Range(executed) /\ ValidUrls(df) = <<>>) =>
          sent = <<>>

\* The loop has ended after a full batch and a smaller last one.
SplitIntoFullAndRest ==
    /\ pc = "enrich_end"
    /\ Len(sent) = 2
    /\ Len(sent[1]) = MAX_URLS_PER_BATCH
    /\ Len(sent[2]) < MAX_URLS_PER_BATCH

\* C6: at most one job is tracked and at most one request is in flight; while
\* a submission is out no job is tracked, and every earlier batch of the run
\* has been settled: its submission failed or its wait returned.
StrictlySequential ==
    /\ Cardinality(tracked) <= 1
    /\ Cardinality(inflight) <= 1
    /\ pc \in {"submit", "await_submit"} =>
          /\ tracked = {}
          /\ Len(df.log) = batch_number - 1
          /\ \A b \in 1..(batch_number - 1) :
                \/ df.log[b].how = "submit_failed"
                \/ <<runs, b>> \in returnedJobs
    /\ pc = "await_submit" => Len(sent) = batch_number

\* The second batch is being submitted after the wait for the first returned.
SecondBatchAfterFirstReturned ==
    /\ pc = "await_submit"
    /\ batch_number = 2
    /\ <<runs, 1>> \in returnedJobs
    /\ inflight = {[req |-> "submit", job |-> <<runs, 2>>]}

\* C7: while the status last polled is anything but completed or error
\* (submitted, processing, missing or unknown), the wait keeps polling: the
\* job is still tracked and the process is in the polling loop.
KeepsPollingUntilTerminal ==
    (lastPoll.code = 200 /\ ~IsTerminal(StatusOf(lastPoll.body)))
        => (pc \in {"wait", "await_poll"} /\ CurrentJob \in tracked)

\* The polls a wait may issue: floor(MAX_POLL_TIME / POLL_INTERVAL) + 1.
PollBound == (MAX_POLL_TIME \div POLL_INTERVAL) + 1

\* C8: the elapsed time of a wait is POLL_INTERVAL per completed iteration,
\* no poll is issued once it exceeds MAX_POLL_TIME, so a wait issues at most
\* floor(MAX_POLL_TIME / POLL_INTERVAL) + 1 polls; a job that timed out was
\* polled exactly that often, is tracked no more, and the loop has moved on
\* past its batch.
BoundedPolling ==
    /\ polls <= PollBound
    /\ settled.polls <= PollBound
    /\ pc = "wait" => elapsed = POLL_INTERVAL * polls
    /\ pc = "await_poll" =>
          /\ elapsed = POLL_INTERVAL * (polls - 1)
          /\ elapsed <= MAX_POLL_TIME
    /\ settled.how = "timeout" =>
          /\ settled.polls = PollBound
          /\ tracked = {}
          /\ pc \in {"submit", "enrich_end"}
          /\ Last(df.log).urls = settled.urls
          /\ batch_number = Len(df.log) + 1

\* A job never reached a terminal status and was abandoned after the last
\* poll the bound allows; the next batch is about to be submitted.
JobAbandonedAtBound ==
    /\ settled.how = "timeout"
    /\ settled.polls = PollBound
    /\ pc = "submit"
    /\ batch_number = 2

\* The status enrich_with_clado gives the records of a batch whose job
\* expired (404) or whose poll failed.
PollFailureStatus == "Error: Job failed"

\* C9: the records of a batch whose job was abandoned on timeout carry a
\* status that differs from the one of a batch whose job expired or whose
\* poll failed.
TimeoutIsDistinguishable ==
    settled.how = "timeout" =>
        \A k \in DOMAIN settled.urls :
            df.rows[UrlToIndex(df, settled.urls[k])].status # PollFailureStatus

\* C10: a job is tracked or polled only after a 200 response to the
\* submission; a run submits each batch at most once; a batch whose
\* submission failed is marked failed, never polled and never waited for.
SubmissionFailureIsFinal ==
    /\ (tracked # {} \/ pc \in {"wait", "await_poll"}) => lastSubmit.code = 200
    /\ Len(sent) <= batch_number
    /\ \A i, j \in DOMAIN sent : i # j => sent[i] # sent[j]
    /\ sent # <<>> =>
          \A b \in DOMAIN df.log :
              df.log[b].how = "submit_failed" =>
                  /\ b \notin polled
                  /\ <<runs, b>> \notin returnedJobs
    /\ settled.how = "submit_failed" =>
          /\ ~(lastSubmit.code = 200 /\ lastSubmit.has_id)
          /\ \A k \in DOMAIN settled.urls :
                df.rows[UrlToIndex(df, settled.urls[k])].status
                    = "Error: Batch submission failed"

\* The first batch's submission was refused for lack of credits: the batch
\* is marked, was never polled, and the second batch is next.
SubmissionRefused ==
    /\ settled.how = "submit_failed"
    /\ lastSubmit.code = 402
    /\ pc = "submit"
    /\ batch_number = 2
    /\ polled = {}
    /\ Len(sent) = 1

\* C11: a poll response that is neither 200 nor 404 (another HTTP status, a
\* network exception) is a retryable poll error: the wait does not give up on
\* the job because of it, the job stays tracked and is polled again.
RetryablePollErrorKeepsPolling ==
    (lastPoll # NoResp /\ lastPoll.code \notin {200, 404})
        => (pc \in {"wait", "await_poll"} /\ CurrentJob \in tracked)

\* C12: once a submission of the run has been answered 401 or 402, the run
\* submits no further batch.
NoSubmissionAfterFatal ==
    [][lastSubmit.code \in {401, 402} => ~(Len(sent') > Len(sent))]_vars

\* The submissions of a batch the run has made so far.
Attempts(urls) == Cardinality({i \in DOMAIN sent : sent[i] = urls})

\* C13: a batch is never failed on its first rate-limit (429) response: when
\* it is marked failed after a 429, it has been submitted more than once.
RetriedBeforeFailing ==
    (settled.how = "submit_failed" /\ lastSubmit.code = 429)
        => Attempts(settled.urls) > 1

\* The statuses enrich_with_clado gives the records of a failed batch.
BatchErrorStatuses ==
    {"Error: Batch submission failed", "Error: Job failed", "Error: write failed"}

\* The ways a batch fails as a whole.
BatchFailures ==
    {"submit_failed", "expired", "poll_failed", "timeout", "merged_then_raised"}

\* The status of the row url_to_index has for an identifier.
StatusOfUrl(u) == df.rows[UrlToIndex(df, u)].status

\* C14: when a batch fails as a whole (submission failed, job expired, poll
\* failed, timeout, exception while handling it), every record of the batch
\* carries an error status and the loop goes on to the next batch if there is
\* one; at the end of the loop every batch has been submitted and settled.
ErrorsAreData ==
    /\ settled.how \in BatchFailures =>
          /\ \A k \in DOMAIN settled.urls :
                StatusOfUrl(settled.urls[k]) \in BatchErrorStatuses
          /\ pc = IF batch_start < Len(ValidUrls(df))
                  THEN "submit" ELSE "enrich_end"
    /\ pc = "enrich_end" =>
          /\ Len(df.log) = Len(sent)
          /\ Concat(sent) = ValidUrls(df)

\* The job of the first batch failed, its records are marked, and the second
\* batch has been submitted all the same.
SecondBatchAfterFailure ==
    /\ pc = "await_submit"
    /\ batch_number = 2
    /\ df.log[1].how = "job_failed"
    /\ \A k \in DOMAIN sent[1] : StatusOfUrl(sent[1][k]) = "Error: Job failed"

\* C15: a job that ends with status "error" fails its batch uniformly: every
\* record of the batch is marked failed and nothing of the job's results is
\* merged.
ErroredJobFailsClosed ==
    (settled.how \in {"merged", "merged_then_raised"}
        /\ lastPoll.body.status = "error")
        => \A k \in DOMAIN settled.urls :
              LET r == df.rows[UrlToIndex(df, settled.urls[k])]
              IN  /\ r.status \in BatchErrorStatuses
                  /\ r.work = <<>>
                  /\ r.personal = <<>>
                  /\ r.phone = <<>>

\* C16: when the enrichment stage returns, every row has a non-empty
\* Enrichment Status.
NoSilentFailure ==
    (pc = "enrich_end" \/ (StageAt = 4 /\ 3 \in Range(executed)))
        => \A i \in DOMAIN df.rows : df.rows[i].status # ""

\* ceil(n / m)
Ceil(n, m) == (n + m - 1) \div m

\* C17: at the end of the loop the run has made ceil(n / MAX_URLS_PER_BATCH)
\* submissions for n valid identifiers, one job per batch, each batch settled
\* on its own, and the dataset has exactly the input's records, one per
\* identifier, whatever the batches' outcomes; during the loop no job of a
\* batch still to come has been polled.
OneRecordPerIdentifier ==
    /\ pc = "enrich_end" =>
          /\ Len(sent) = Ceil(Len(ValidUrls(df)), MAX_URLS_PER_BATCH)
          /\ Len(df.log) = Len(sent)
          /\ Len(df.rows) = Len(input.urls)
          /\ \A i \in DOMAIN df.rows : df.rows[i].url = input.urls[i]
          /\ Len(ValidUrls(df)) = Len(ValidUrls(read_csv(input)))
          /\ polled \subseteq 1..Len(sent)
          /\ returnedJobs \subseteq {<<runs, b>> : b \in 1..Len(sent)}
    /\ pc \in LoopPcs =>
          /\ polled \subseteq 1..batch_number
          /\ Len(df.rows) = Len(input.urls)

\* Three identifiers in two batches, the first failed and the second merged:
\* three records all the same.
TwoBatchesMixedOutcome ==
    /\ pc = "enrich_end"
    /\ Len(ValidUrls(df)) = MAX_URLS_PER_BATCH + 1
    /\ Len(sent) = 2
    /\ df.log[1].how = "job_failed"
    /\ df.log[2].how = "merged"
    /\ Len(df.rows) = MAX_URLS_PER_BATCH + 1

\* C21: the ordinal steps of the checkpoints written for the dataset never
\* decrease in creation order, whatever runs, failures, interrupts and
\* cleanups lie between two writes.
OrdinalStepsNonDecreasing ==
    [][lastOrdinal' >= lastOrdinal]_vars

\* C23: a save_checkpoint call that fails ends the run: the step in which a
\* checkpoint write fails takes the run to the return of
\* process_single_dataset, with no further stage and no further submission,
\* and every checkpoint the store held is still in it.
SaveFailureIsFatal ==
    [][faults' > faults
          => (pc' = "returned" /\ Range(ckpt) \subseteq Range(ckpt'))]_vars

\* C24: a process that starts while the highest ordinal checkpoint of the
\* dataset cannot be deserialized treats the dataset as having no checkpoint:
\* its run begins at step 1, with no dataframe loaded yet.
UnreadableCheckpointRestarts ==
    [][(pc = "idle" /\ LatestRaises(ckpt) /\ runs' > runs)
          => (pc' = "step1" /\ df' = NoDf /\ resumed' = 0)]_vars

\* C25: the step in which a stage of the run raises (a checkpoint write
\* fails, or the analysis raises) leaves an error checkpoint of this run in
\* the store that holds the dataframe of the moment and the reason, and adds
\* no artifact with the ordinal step of the failed stage or of a later one.
FatalAbortLeavesErrorCheckpoint ==
    [][(pc' = "returned"
          /\ (faults' > faults \/ (pc = "step8" /\ AnalysisRaises(df))))
          => /\ HasCheckpoint(ckpt', ErrorKey(runs))
             /\ load_checkpoint(ckpt', ErrorKey(runs)).dataframe = df'
             /\ load_checkpoint(ckpt', ErrorKey(runs)).extra # "none"
             /\ StepNumbers(ckpt') = StepNumbers(ckpt)]_vars

\* C26: whatever becomes of the run of one dataset (a stage raises, a
\* checkpoint write fails, its checkpoint cannot be read), a process that was
\* not interrupted ends with main's loop having gone through the datasets it
\* found.
OtherDatasetsStillProcessed ==
    (pc = "idle" /\ runs > 0 /\ ~signalled) => sweepEnd = "completed"

\* The checkpoints of a store that load_checkpoint can load.
Loadable(store) == {store[i] : i \in {j \in DOMAIN store : store[j].dataframe # Unreadable}}

\* C27: an interrupt ends the process where it stands: once an interrupt was
\* delivered the process is over, with main's loop left and nothing in
\* flight, and the step in which it is delivered leaves every loadable
\* checkpoint, the one written last among them, in the store as it was.
InterruptEndsProcess ==
    [][signalled'
          => /\ pc' = "idle"
             /\ sweepEnd' = "interrupted"
             /\ inflight' = {}
             /\ ~signalled => Loadable(ckpt) \subseteq Loadable(ckpt')]_vars

\* C28: a run that finds the latest ordinal checkpoint at the terminal step
\* does nothing: the step that starts it leaves the store and the output file
\* as they are and takes process_single_dataset to its return, with no stage
\* entered, no batch submitted and no request in flight.
CompleteRunIsNoOp ==
    [][resumed' >= 7
          => /\ pc' = "returned"
             /\ executed' = <<>>
             /\ sent' = <<>>
             /\ inflight' = {}
             /\ ckpt' = ckpt
             /\ output' = output]_vars

\* A second process has found the checkpoint of step 7 that the first one
\* wrote after the output file, and has returned.
ReturnedFromCompleteDataset ==
    /\ pc = "returned"
    /\ runs = 2
    /\ resumed = 7
    /\ output # NoDf
    /\ get_latest_checkpoint(ckpt).dataframe = output

(***************************************************************************)
(* The checkpoint store on its own: save_checkpoint and                    *)
(* cleanup_old_checkpoints called in any order with any step and           *)
(* dataframe, the way process_single_dataset, enrich_with_clado and main   *)
(* call them.  Only the store changes.                                     *)
(***************************************************************************)
MaxStep == 2

\* The steps that are saved: the ordinal steps, an intermediate enrichment
\* checkpoint f"3_batch_{batch_number}" and an f"error_{int(time.time())}".
LabelKeys == {BatchKey(2), ErrorKey(1)}
StoreKeys == {Ord(k) : k \in 0..MaxStep} \cup LabelKeys

StoreFrames == {read_csv([cols |-> c, urls |-> <<>>]) : c \in InputColumnSets}

StoreInit == Init /\ input = [cols |-> {"Work Email"}, urls |-> <<>>]

StoreSave ==
    /\ \E key \in StoreKeys, frame \in StoreFrames :
           ckpt' = save_checkpoint(ckpt, key, frame, "none")
    /\ UNCHANGED <<input, output, service, faults, runs, pc, step, df,
                   enrichVars, resumed, executed, histVars>>
    /\ UNCHANGED progressVars
    /\ UNCHANGED <<lastOrdinal, sweepVars>>

\* main: cleanup_old_checkpoints(dataset_name, keep_latest=2)
StoreCleanup ==
    /\ ckpt' = cleanup_old_checkpoints(ckpt, 2)
    /\ UNCHANGED <<input, output, service, faults, runs, pc, step, df,
                   enrichVars, resumed, executed, histVars>>
    /\ UNCHANGED progressVars
    /\ UNCHANGED <<lastOrdinal, sweepVars>>

StoreNext == StoreSave \/ StoreCleanup

StoreSpec == StoreInit /\ [][StoreNext]_vars

\* The ordinal steps a store holds an artifact of, read from the keys.
OrdinalSteps(store) ==
    {store[i].key.n : i \in {j \in DOMAIN store : store[j].key.kind = "ord"}}

OrdinalOnly(store) == SelectSeq(store, LAMBDA c : c.key.kind = "ord")

\* Saving the frames fs at the steps 0 .. Len(fs) - 1, in this order.
RECURSIVE SavedInOrder(_, _)
SavedInOrder(store, fs) ==
    IF fs = <<>> THEN store
    ELSE save_checkpoint(SavedInOrder(store, SubSeq(fs, 1, Len(fs) - 1)),
                         Ord(Len(fs) - 1), fs[Len(fs)], "none")

\* C18: get_latest_checkpoint returns None exactly when the store holds no
\* ordinal checkpoint, and otherwise an artifact of the store whose ordinal
\* step is the highest one.  Saving a state at a step that no stored ordinal
\* step exceeds, once or twice, makes it the latest: its step and its
\* dataframe are what get_latest_checkpoint returns.  After saves at the
\* steps 0..N in order, the latest is the state saved at step N.
LatestIsHighestOrdinal ==
    /\ (OrdinalSteps(ckpt) = {}) <=> (get_latest_checkpoint(ckpt) = NoCkpt)
    /\ OrdinalSteps(ckpt) # {} =>
          LET latest == get_latest_checkpoint(ckpt)
          IN  /\ \E i \in DOMAIN ckpt : ckpt[i] = latest
              /\ latest.key.kind = "ord"
              /\ \A n \in OrdinalSteps(ckpt) : n <= latest.key.n
    /\ \A k \in 0..MaxStep, f \in StoreFrames :
          (\A n \in OrdinalSteps(ckpt) : n <= k) =>
              LET once  == save_checkpoint(ckpt, Ord(k), f, "none")
                  twice == save_checkpoint(once, Ord(k), f, "none")
              IN  /\ get_latest_checkpoint(once).step = Ord(k)
                  /\ get_latest_checkpoint(once).dataframe = f
                  /\ get_latest_checkpoint(twice).step = Ord(k)
                  /\ get_latest_checkpoint(twice).dataframe = f
    /\ OrdinalSteps(ckpt) = {} =>
          \A n \in 0..MaxStep : \A fs \in [1..(n + 1) -> StoreFrames] :
              /\ get_latest_checkpoint(SavedInOrder(ckpt, fs)).step = Ord(n)
              /\ get_latest_checkpoint(SavedInOrder(ckpt, fs)).dataframe = fs[n + 1]

\* The steps 0..MaxStep were saved in order, the last two with different
\* states, and the latest checkpoint is the one of step MaxStep.
LatestAfterSequentialSaves ==
    /\ Len(ckpt) = MaxStep + 1
    /\ \A k \in 0..MaxStep : ckpt[k + 1].key = Ord(k)
    /\ ckpt[MaxStep + 1].dataframe # ckpt[MaxStep].dataframe
    /\ get_latest_checkpoint(ckpt) = ckpt[MaxStep + 1]

\* C19: a labeled checkpoint ("3_batch_<n>", "error_<time>") is never what
\* get_latest_checkpoint returns: the latest is the latest of the ordinal
\* checkpoints alone, None when there is none, and saving a labeled
\* checkpoint does not change it.  Every artifact of the store, labeled or
\* ordinal, is what load_checkpoint returns for its exact key.
LabeledNeverLatest ==
    /\ get_latest_checkpoint(ckpt) = get_latest_checkpoint(OrdinalOnly(ckpt))
    /\ get_latest_checkpoint(ckpt) # NoCkpt =>
          get_latest_checkpoint(ckpt).key \notin LabelKeys
    /\ \A i \in DOMAIN ckpt : load_checkpoint(ckpt, ckpt[i].key) = ckpt[i]
    /\ \A key \in LabelKeys, f \in StoreFrames :
          LET saved == save_checkpoint(ckpt, key, f, "none")
          IN  /\ get_latest_checkpoint(saved) = get_latest_checkpoint(ckpt)
              /\ load_checkpoint(saved, key).key = key
              /\ load_checkpoint(saved, key).dataframe = f

\* Both labeled checkpoints were written after an ordinal one, which is
\* still the latest, and each of them loads by its key.
LabeledNewerThanOrdinal ==
    /\ Len(ckpt) = 3
    /\ ckpt[1].key.kind = "ord"
    /\ {ckpt[2].key, ckpt[3].key} = LabelKeys
    /\ get_latest_checkpoint(ckpt) = ckpt[1]
    /\ load_checkpoint(ckpt, BatchKey(2)) # NoCkpt
    /\ load_checkpoint(ckpt, ErrorKey(1)) # NoCkpt

\* C20: save_checkpoint leaves one artifact for its step, holding the saved
\* state, and load_checkpoint of every other step returns what it returned
\* before the save.
SaveLeavesOtherStepsUnchanged ==
    \A key \in StoreKeys, f \in StoreFrames :
        LET saved == save_checkpoint(ckpt, key, f, "none")
        IN  /\ Cardinality({i \in DOMAIN saved : saved[i].key = key}) = 1
            /\ load_checkpoint(saved, key).dataframe = f
            /\ \A other \in StoreKeys \ {key} :
                   load_checkpoint(saved, other) = load_checkpoint(ckpt, other)

\* A step was saved beside two checkpoints of other steps, which hold a
\* different state than the one saved last.
SavedBesideOthers ==
    /\ Len(ckpt) = 3
    /\ ckpt[3].key = Ord(1)
    /\ ckpt[1].key = Ord(0)
    /\ ckpt[2].key = BatchKey(2)
    /\ ckpt[1].dataframe # ckpt[3].dataframe
    /\ load_checkpoint(ckpt, Ord(0)) = ckpt[1]

\* The values of keep_latest: the default 3, main's 2, and 1.
KeepLatestValues == {1, 2, 3}

\* The positions, in order of modification, of the artifacts of a store. 
Position(store, artifact) == CHOOSE i \in DOMAIN store : store[i] = artifact

\* C22: for keep_latest = N >= 1, cleanup_old_checkpoints removes nothing but
\* artifacts that at least N artifacts of the dataset are more recent than:
\* what remains are artifacts of the store, unchanged and in their order, at
\* least N of them if the store held N, and the most recent one among them.
CleanupKeepsMostRecent ==
    \A n \in KeepLatestValues :
        LET after == cleanup_old_checkpoints(ckpt, n)
            removed == Range(ckpt) \ Range(after)
        IN  /\ Range(after) \subseteq Range(ckpt)
            /\ \A i, j \in DOMAIN after :
                   i < j => Position(ckpt, after[i]) < Position(ckpt, after[j])
            /\ \A a \in removed :
                   Cardinality({i \in DOMAIN ckpt : i > Position(ckpt, a)}) >= n
            /\ Len(ckpt) >= n => Len(after) >= n
            /\ ckpt # <<>> => ckpt[Len(ckpt)] \in Range(after)

\* The store holds every step; a cleanup with keep_latest=2 removes the three
\* oldest, ordinal ones among them, and keeps the two written last.
CleanupRemovesOldest ==
    /\ Len(ckpt) = MaxStep + 3
    /\ ckpt[1].key = Ord(0)
    /\ ckpt[Len(ckpt)].key \in LabelKeys
    /\ cleanup_old_checkpoints(ckpt, 2)
          = <<ckpt[Len(ckpt) - 1], ckpt[Len(ckpt)]>>

(***************************************************************************)
(* The progress report of wait_for_job_completion on its own: the job of a *)
(* batch of total_urls profiles is polled and each poll reports a count of *)
(* processed profiles, which the loop compares with its two locals.        *)
(***************************************************************************)
milestone_count == 50
MaxProgressPolls == 4

\* The sizes of the batches and the counts a poll reports for them.
TotalUrls == {125, 500}
ProcessedCounts == {0, 25, 50, 75, 100, 125, 150, 500}

\* wait_for_job_completion is called: its locals are initialised.
ProgressStart ==
    /\ total_urls' \in TotalUrls
    /\ last_processed' = 0
    /\ next_milestone' = milestone_count
    /\ notices' = <<>>
    /\ polls' = 0
    /\ UNCHANGED <<input, ckpt, output, service, faults, runs, pc, step, df,
                   enrichVars, resumed, executed, sent, lastSubmit, lastPoll,
                   settled, polled, returnedJobs, doneEarlier, lastOrdinal,
                   sweepVars>>

\* One poll that reports a count, no lower than the counts reported before:
\* "if processed > last_processed", with the milestone test inside.
ProgressPoll ==
    /\ total_urls > 0
    /\ polls < MaxProgressPolls
    /\ \E processed \in {p \in ProcessedCounts :
                            last_processed <= p /\ p <= total_urls} :
          LET advanced == processed > last_processed
              reports == advanced /\ (processed >= next_milestone
                                        \/ processed = total_urls)
          IN  /\ notices' = IF reports THEN Append(notices, processed)
                            ELSE notices
              /\ next_milestone' = IF reports
                                   THEN next_milestone + milestone_count
                                   ELSE next_milestone
              /\ last_processed' = IF advanced THEN processed
                                   ELSE last_processed
    /\ polls' = polls + 1
    /\ UNCHANGED <<input, ckpt, output, service, faults, runs, pc, step, df,
                   enrichVars, resumed, executed, sent, lastSubmit, lastPoll,
                   settled, polled, returnedJobs, doneEarlier, lastOrdinal,
                   sweepVars, total_urls>>

ProgressNext == ProgressStart \/ ProgressPoll

ProgressInit == Init /\ input = [cols |-> {"Work Email"}, urls |-> <<>>]

ProgressSpec == ProgressInit /\ [][ProgressNext]_vars

\* A multiple of milestone_count lies above from and not above to.
CrossesMilestone(from, to) ==
    \E k \in 1..(to \div milestone_count) :
        from < k * milestone_count /\ k * milestone_count <= to

\* C29: every progress line was printed for a processed count that is higher
\* than the count of the line before it (0 for the first line) and that has
\* crossed a further multiple of milestone_count since then or is the batch
\* total.
NotifiesOnlyAtMilestones ==
    \A i \in DOMAIN notices :
        LET before == IF i = 1 THEN 0 ELSE notices[i - 1]
        IN  /\ notices[i] > before
            /\ \/ CrossesMilestone(before, notices[i])
               \/ notices[i] = total_urls

(***************************************************************************)
(* The stages 4 to 6 on their own: the run of a dataset of one person has  *)
(* written checkpoint 3 after a job that returned any short list of email  *)
(* contacts for that person, and goes on from there.                       *)
(***************************************************************************)
MaxContacts == 2

\* The email entries of result['data']['contacts'].
ContactEntries ==
    {[type |-> "email", subType |-> st, value |-> e] :
        st \in {"work", "personal"}, e \in Emails}

ContactLists ==
    UNION {[1..n -> ContactEntries] : n \in 0..MaxContacts}

OnePerson == [cols |-> {"Work Email", "LinkedIn Profile"}, urls |-> <<"u1">>]

ResultWith(contacts) ==
    [linkedin_url |-> "u1", success |-> TRUE, error |-> "missing",
     contacts |-> contacts]

\* The dataframe enrich_with_clado returns for the one person when the job of
\* its batch has completed with the given contacts.
EnrichedWith(contacts) ==
    LET start == InitEnrichColumns(clean_existing_email_columns(read_csv(OnePerson)))
        merged == MergeResults(start, <<ResultWith(contacts)>>)
    IN  [merged EXCEPT !.log = <<[urls |-> <<"u1">>, how |-> "merged",
                                  status |-> "completed",
                                  results |-> <<ResultWith(contacts)>>]>>]

\* The state of the run when enrich_with_clado has returned.
ConsolidateInit ==
    \E contacts \in ContactLists :
        /\ input = OnePerson
        /\ df = EnrichedWith(contacts)
        /\ ckpt = save_checkpoint(
                    save_checkpoint(
                      save_checkpoint(<<>>, Ord(1), read_csv(OnePerson), "none"),
                      Ord(2), clean_existing_email_columns(read_csv(OnePerson)),
                      "none"),
                    Ord(3), EnrichedWith(contacts), "none")
        /\ service = (<<"u1">> :> [empty |-> FALSE, status |-> "completed",
                                   results |-> <<ResultWith(contacts)>>])
        /\ output = NoDf
        /\ faults = 0
        /\ runs = 1
        /\ pc = "step4"
        /\ step = 2
        /\ batch_start = NextBatchStart(0)
        /\ batch_number = 2
        /\ tracked = {}
        /\ inflight = {}
        /\ elapsed = 0
        /\ resumed = 0
        /\ executed = <<1, 2, 3>>
        /\ sent = <<(<<"u1">>)>>
        /\ polls = 0
        /\ lastSubmit = NoResp
        /\ lastPoll = NoResp
        /\ settled = NoSettled
        /\ polled = {1}
        /\ returnedJobs = {<<1, 1>>}
        /\ doneEarlier = {}
        /\ lastOrdinal = 3
        /\ signalled = FALSE
        /\ sweepEnd = "none"
        /\ total_urls = 0
        /\ last_processed = 0
        /\ next_milestone = 0
        /\ notices = <<>>

ConsolidateNext == Step4 \/ Step5 \/ Step6

ConsolidateSpec == ConsolidateInit /\ [][ConsolidateNext]_vars

\* The email addresses of a result.
ResultEmails(result) ==
    {result.contacts[k].value :
        k \in {l \in DOMAIN result.contacts : result.contacts[l].type = "email"}}

\* The successful results for a URL that the log of a dataframe records.
ResultsFor(frame, u) ==
    UNION {{frame.log[i].results[j] :
               j \in {m \in DOMAIN frame.log[i].results :
                          /\ frame.log[i].results[m].linkedin_url = u
                          /\ frame.log[i].results[m].success}} :
           i \in DOMAIN frame.log}

\* The addresses the enrichment returned for the person of a URL, read from
\* the results of the jobs the dataframe's log records.
ReturnedEmails(frame, u) ==
    UNION {ResultEmails(r) : r \in ResultsFor(frame, u)}

\* C30: after the steps 5 and 6 each person's Consolidated_Email is of the
\* best priority class (personal before work before educational) among the
\* addresses the enrichment returned for that person.
ConsolidatesToBestPriority ==
    (pc = "step7" /\ 5 \in Range(executed) /\ 6 \in Range(executed))
        => \A i \in DOMAIN df.rows :
              \A e \in ReturnedEmails(df, df.rows[i].url) :
                  prioritize_email(df.rows[i].best) <= prioritize_email(e)

(***************************************************************************)
(* Further properties of the pipeline.                                     *)
(***************************************************************************)
\* C31: the step get_latest_checkpoint selects for the dataset (0: none)
\* never decreases, whatever runs, failures and cleanups follow one another:
\* in particular no cleanup removes the checkpoint of the highest ordinal
\* step.
ProgressNeverLost ==
    [][HighestOrdinal(ckpt') >= HighestOrdinal(ckpt)]_vars

\* The loadable checkpoint of the highest ordinal step, NoCkpt for none.
LastCompleteOrdinal(store) ==
    LET complete == {c \in Loadable(store) : c.key.kind = "ord"}
    IN  IF complete = {} THEN NoCkpt
        ELSE CHOOSE c \in complete : \A d \in complete : d.key.n <= c.key.n

\* C32: after a process was interrupted, wherever it stood, the next start
\* can resume: get_latest_checkpoint does not raise, and it returns the
\* ordinal checkpoint of the highest step that was written completely.
ResumableAfterInterrupt ==
    (pc = "idle" /\ sweepEnd = "interrupted")
        => /\ ~LatestRaises(ckpt)
           /\ get_latest_checkpoint(ckpt) = LastCompleteOrdinal(ckpt)

(***************************************************************************)
(* Runs that follow the enrichment checkpoint.                             *)
(***************************************************************************)
\* The store a process leaves that wrote the checkpoints 1, 2 and 3 of the
\* one person and whose write of checkpoint 4 raised: the except block saved
\* the error checkpoint and main's cleanup kept the two newest artifacts.
StoreAfterFailedStep4(contacts) ==
    cleanup_old_checkpoints(
        save_checkpoint(
          save_checkpoint(
            save_checkpoint(
              save_checkpoint(<<>>, Ord(1), read_csv(OnePerson), "none"),
              Ord(2), clean_existing_email_columns(read_csv(OnePerson)), "none"),
            Ord(3), EnrichedWith(contacts), "none"),
          ErrorKey(0), filter_people_with_emails(EnrichedWith(contacts)),
          "write failed"),
        2)

\* The state between two processes, after that process: the enrichment
\* checkpoint exists.  runs and faults count the processes and the failed
\* writes from here on.
ResumeInit ==
    \E contacts \in ContactLists :
        /\ input = OnePerson
        /\ ckpt = StoreAfterFailedStep4(contacts)
        /\ service = (<<"u1">> :> [empty |-> FALSE, status |-> "completed",
                                   results |-> <<ResultWith(contacts)>>])
        /\ output = NoDf
        /\ faults = 0
        /\ runs = 0
        /\ pc = "idle"
        /\ step = 0
        /\ df = NoDf
        /\ batch_start = 0
        /\ batch_number = 0
        /\ tracked = {}
        /\ inflight = {}
        /\ elapsed = 0
        /\ resumed = 0
        /\ executed = <<>>
        /\ sent = <<>>
        /\ polls = 0
        /\ lastSubmit = NoResp
        /\ lastPoll = NoResp
        /\ settled = NoSettled
        /\ polled = {}
        /\ returnedJobs = {}
        /\ doneEarlier = {<<"u1">>}
        /\ lastOrdinal = 3
        /\ signalled = FALSE
        /\ sweepEnd = "completed"
        /\ total_urls = 0
        /\ last_processed = 0
        /\ next_milestone = 0
        /\ notices = <<>>

ResumeSpec == ResumeInit /\ [][Next]_vars

\* C33: in the runs that follow the writing of the enrichment checkpoint
\* (every state of ResumeSpec follows it) no submission is sent and no
\* request is in flight: no later run issues a remote request for the dataset.
NoRequestAfterEnrichCheckpoint ==
    /\ sent = <<>>
    /\ inflight = {}

\* A run that sends a submission resumed from an ordinal checkpoint below
\* the enrich step, or from none.
ResubmissionOnlyBelowEnrichStep ==
    (sent # <<>>) => resumed < 3

\* The values of Enrichment Status that start with "Error".
ErrorStatuses ==
    {"Error: Unknown error", "Error: Profile not found", "Error: other",
     "Error: Batch submission failed", "Error: Job failed", "Error: write failed"}

\* C34: when the batch loop of enrich_with_clado has ended, every row whose
\* Enrichment Status is an error has empty Work Email (Clado), Personal Email
\* (Clado) and Phone (Clado): no row is both marked failed and carrying merged
\* contact data.
ErrorRowsCarryNoContacts ==
    (pc = "enrich_end")
        => \A i \in DOMAIN df.rows :
              df.rows[i].status \in ErrorStatuses
                  => /\ df.rows[i].work = <<>>
                     /\ df.rows[i].personal = <<>>
                     /\ df.rows[i].phone = <<>>

\* "pd.notna(linkedin_url) and linkedin_url" is false: the row has no identifier.
NoIdentifier(u) == u = NoUrl \/ u = ""

\* C35: a row without an identifier is in no batch that was submitted; while
\* the batch loop runs and when it has ended, the row has Enrichment Status
\* "No LinkedIn URL" and the merge of no job's results has changed it: its
\* enrichment columns are as they were initialized.
RowsWithoutIdentifierUntouched ==
    /\ \A k \in DOMAIN sent : \A j \in DOMAIN sent[k] : ~NoIdentifier(sent[k][j])
    /\ (pc \in LoopPcs \cup {"enrich_end"})
          => \A i \in DOMAIN df.rows :
                NoIdentifier(df.rows[i].url)
                    => df.rows[i] = [NewRow(df.rows[i].url) EXCEPT
                                        !.status = "No LinkedIn URL"]

\* The batch loop has ended for a dataset with a row without identifier and a
\* row that the merge of a job's results has filled.
MergedBesideRowWithoutIdentifier ==
    /\ pc = "enrich_end"
    /\ \E i \in DOMAIN df.rows : NoIdentifier(df.rows[i].url)
    /\ \E i \in DOMAIN df.rows : df.rows[i].status = "Success"

(***************************************************************************)
(* The merge of a job's results, for any result list.                      *)
(***************************************************************************)
MaxResults == 2

\* The result lists a 200 body can carry: up to MaxResults entries, each a
\* success or a failure naming any string the dataframe has in its LinkedIn
\* column, whether of the polled batch or not.
AnyResult(frame) ==
    {OkResult(frame.rows[i].url) : i \in DOMAIN frame.rows}
        \cup {FailResult(frame.rows[i].url) : i \in DOMAIN frame.rows}

AnyResultLists(frame) ==
    UNION {[1..n -> AnyResult(frame)] : n \in 0..MaxResults}

\* The answers to a poll when the body is whatever JSON arrives.
AnyPollResponses(frame) ==
    {[code |-> c, body |-> NoBody] : c \in {404, 429, 500, 0}}
    \cup {[code |-> 200, body |-> NoBody]}
    \cup {[code |-> 200, body |-> [empty |-> FALSE, status |-> st, results |-> <<>>]] :
             st \in {"submitted", "processing", "missing"}}
    \cup {[code |-> 200, body |-> [empty |-> FALSE, status |-> st, results |-> r]] :
             st \in {"completed", "error"}, r \in AnyResultLists(frame)}

PollRecvUnrestricted ==
    /\ pc = "await_poll"
    /\ PollRecvOf(AnyPollResponses(df))

\* The first run of a dataset of MaxRows rows when enrich_with_clado enters
\* its batch loop.
MergeInit ==
    \E urls \in {s \in InputUrlLists : Len(s) = MaxRows} :
        LET inp == [cols |-> {"Work Email", "LinkedIn Profile"}, urls |-> urls]
            cleaned == clean_existing_email_columns(read_csv(inp))
        IN  /\ ValidUrls(cleaned) # <<>>
            /\ input = inp
            /\ df = InitEnrichColumns(cleaned)
            /\ ckpt = save_checkpoint(
                        save_checkpoint(<<>>, Ord(1), read_csv(inp), "none"),
                        Ord(2), cleaned, "none")
            /\ service = <<>>
            /\ output = NoDf
            /\ faults = 0
            /\ runs = 1
            /\ pc = "submit"
            /\ step = 2
            /\ batch_start = 0
            /\ batch_number = 1
            /\ tracked = {}
            /\ inflight = {}
            /\ elapsed = 0
            /\ resumed = 0
            /\ executed = <<1, 2, 3>>
            /\ sent = <<>>
            /\ polls = 0
            /\ lastSubmit = NoResp
            /\ lastPoll = NoResp
            /\ settled = NoSettled
            /\ polled = {}
            /\ returnedJobs = {}
            /\ doneEarlier = {}
            /\ lastOrdinal = 2
            /\ signalled = FALSE
            /\ sweepEnd = "none"
            /\ total_urls = 0
            /\ last_processed = 0
            /\ next_milestone = 0
            /\ notices = <<>>

MergeNext == Submit \/ SubmitRecv \/ Wait \/ PollRecvUnrestricted

MergeSpec == MergeInit /\ [][MergeNext]_vars

\* u is one of the URLs of the batch.
InBatch(urls, u) == \E k \in DOMAIN urls : urls[k] = u

\* C36: the step that merges the results of the job of a batch leaves every
\* row outside that batch as it was, and the LinkedIn column of every row,
\* whatever result list the body carried.
MergeTouchesOnlyItsBatch ==
    [][(pc = "await_poll" /\ settled'.how = "merged")
          => \A i \in DOMAIN df.rows :
                /\ df'.rows[i].url = df.rows[i].url
                /\ InBatch(CurrentBatch, df.rows[i].url)
                      \/ df'.rows[i] = df.rows[i]]_vars

(***************************************************************************)
(* The checkpoints directory shared by the datasets.  File names are       *)
(* sequences of tokens; no token is a prefix of another, so two sequences  *)
(* are the same string only if they are the same sequence.  In DirSpec the *)
(* variable ckpt is the whole directory, oldest modification first, each   *)
(* file with the (dataset, step) key whose save wrote it.                  *)
(***************************************************************************)
MaxNameLen == 3
MaxFiles == 3

NameTokens == {"a", "_step_", "2"}

\* os.path.basename(file_path).replace('.csv', ''): the names of up to
\* MaxNameLen tokens that start with a letter.
DatasetNames ==
    {s \in UNION {[1..n -> NameTokens] : n \in 1..MaxNameLen} : s[1] = "a"}

\* str(step) for the steps save_checkpoint is called with: ordinal steps and
\* labels.
StepTexts == {<<"1">>, <<"2">>, <<"error_1">>}

\* f"{dataset_name}_step_{step}.pkl"
CheckpointFile(dataset_name, stepText) ==
    dataset_name \o <<"_step_">> \o stepText \o <<".pkl">>

IsPrefix(p, f) == Len(p) <= Len(f) /\ SubSeq(f, 1, Len(p)) = p

\* glob.glob(f"{dataset_name}_step_*.pkl"): the positions of the matches.
Glob(dir, dataset_name) ==
    {i \in DOMAIN dir :
        /\ IsPrefix(dataset_name \o <<"_step_">>, dir[i].name)
        /\ Len(dir[i].name) >= Len(dataset_name) + 2
        /\ dir[i].name[Len(dir[i].name)] = ".pkl"}

\* The tokens before the first occurrence of sep, all of them if there is none.
Before(s, sep) ==
    IF \E i \in DOMAIN s : s[i] = sep
    THEN SubSeq(s, 1, (CHOOSE i \in DOMAIN s :
                          s[i] = sep /\ \A j \in 1..(i - 1) : s[j] # sep) - 1)
    ELSE s

\* file.split('_step_')[1].split('.pkl')[0]
StepField(name) ==
    LET first == Len(Before(name, "_step_")) + 1
    IN  Before(Before(SubSeq(name, first + 1, Len(name)), "_step_"), ".pkl")

IsDigits(s) == s # <<>> /\ \A i \in DOMAIN s : s[i] \in {"1", "2"}

DigitOf(t) == IF t = "1" THEN 1 ELSE 2

RECURSIVE IntOf(_)
IntOf(s) ==
    IF s = <<>> THEN 0
    ELSE 10 * IntOf(SubSeq(s, 1, Len(s) - 1)) + DigitOf(s[Len(s)])

RECURSIVE StrOf(_)
StrOf(n) ==
    LET d == IF n % 10 = 1 THEN "1" ELSE "2"
    IN  IF n < 10 THEN <<d>> ELSE StrOf(n \div 10) \o <<d>>

\* The step numbers get_latest_checkpoint collects for the dataset.
DirStepNumbers(dir, dataset_name) ==
    {IntOf(StepField(dir[i].name)) :
        i \in {j \in Glob(dir, dataset_name) : IsDigits(StepField(dir[j].name))}}

\* The positions of the file get_latest_checkpoint loads for the dataset.
DirLatest(dir, dataset_name) ==
    IF DirStepNumbers(dir, dataset_name) = {} THEN {}
    ELSE {i \in DOMAIN dir :
            dir[i].name = CheckpointFile(dataset_name,
                            StrOf(MaxOf(DirStepNumbers(dir, dataset_name))))}

\* The positions of the files cleanup_old_checkpoints removes for the
\* dataset: all matches but the keep_latest most recently modified.
DirRemoved(dir, dataset_name, keep_latest) ==
    LET matches == Glob(dir, dataset_name)
    IN  {i \in matches : Cardinality({j \in matches : j > i}) >= keep_latest}

\* save_checkpoint(dataset_name, step, df): the file is written, anew or in
\* place, and is the most recently modified.
DirSave ==
    /\ \E dataset_name \in DatasetNames, stepText \in StepTexts :
          LET name == CheckpointFile(dataset_name, stepText)
              others == SelectSeq(ckpt, LAMBDA f : f.name # name)
          IN  /\ Len(others) < MaxFiles
              /\ ckpt' = Append(others, [name |-> name,
                                         dataset |-> dataset_name,
                                         step |-> stepText])
    /\ UNCHANGED <<input, output, service, faults, runs, pc, step, df,
                   enrichVars, resumed, executed, histVars>>
    /\ UNCHANGED progressVars
    /\ UNCHANGED <<lastOrdinal, sweepVars>>

\* main: cleanup_old_checkpoints(dataset_name, keep_latest=2)
DirCleanup ==
    /\ \E dataset_name \in DatasetNames :
          LET gone == DirRemoved(ckpt, dataset_name, 2)
              kept == {i \in DOMAIN ckpt : i \notin gone}
          IN  /\ gone # {}
              /\ ckpt' = [k \in 1..Cardinality(kept) |->
                            ckpt[CHOOSE i \in kept :
                                    Cardinality({j \in kept : j <= i}) = k]]
    /\ UNCHANGED <<input, output, service, faults, runs, pc, step, df,
                   enrichVars, resumed, executed, histVars>>
    /\ UNCHANGED progressVars
    /\ UNCHANGED <<lastOrdinal, sweepVars>>

DirInit == Init /\ input = [cols |-> {"Work Email"}, urls |-> <<>>]

DirNext == DirSave \/ DirCleanup

DirSpec == DirInit /\ [][DirNext]_vars

\* C37: for every dataset name, the files its cleanup would remove and the
\* file its get_latest_checkpoint would load were written for that dataset,
\* and the file a save for it writes holds no other key's artifact: distinct
\* (dataset, step) keys have distinct files.
CheckpointsIsolatedPerDataset ==
    \A dataset_name \in DatasetNames :
        /\ \A i \in DirRemoved(ckpt, dataset_name, 2) :
              ckpt[i].dataset = dataset_name
        /\ \A i \in DirLatest(ckpt, dataset_name) :
              ckpt[i].dataset = dataset_name
        /\ \A stepText \in StepTexts : \A i \in DOMAIN ckpt :
              ckpt[i].name = CheckpointFile(dataset_name, stepText)
                  => ckpt[i].dataset = dataset_name /\ ckpt[i].step = stepText

\* The files get_latest_checkpoint looks at for a dataset were written for it.
LatestConsidersOwnFilesOnly ==
    \A dataset_name \in DatasetNames : \A i \in Glob(ckpt, dataset_name) :
        ckpt[i].dataset = dataset_name

\* Distinct (dataset, step) keys have distinct files, and the file
\* get_latest_checkpoint loads for a dataset was written for it.
OwnFileSavedAndLoaded ==
    \A dataset_name \in DatasetNames :
        /\ \A i \in DirLatest(ckpt, dataset_name) :
              ckpt[i].dataset = dataset_name
        /\ \A stepText \in StepTexts : \A i \in DOMAIN ckpt :
              ckpt[i].name = CheckpointFile(dataset_name, stepText)
                  => ckpt[i].dataset = dataset_name /\ ckpt[i].step = stepText

(***************************************************************************)
(* enrich_csv_file_async of enrich_linkedin_profiles_async.py: the         *)
(* streaming enricher.  In StreamSpec the variable output is the output    *)
(* CSV: its rows as written, and idx, the dataframe index of each.         *)
(***************************************************************************)
\* writer.writerow(df.loc[idx].to_dict()) for the indices of a sequence.
WriteRows(out, frame, idxs) ==
    [out EXCEPT !.rows = @ \o [k \in DOMAIN idxs |-> frame.rows[idxs[k]]],
                !.idx = @ \o idxs]

\* The indices url_to_index gives for the URLs of a batch, in batch order.
BatchIndices(frame, urls) ==
    [k \in DOMAIN urls |-> UrlToIndex(frame, urls[k])]

\* The indices of the rows without identifier, in row order.
NoUrlIndices(frame) ==
    LET S == {i \in DOMAIN frame.rows : NoIdentifier(frame.rows[i].url)}
    IN  [k \in 1..Cardinality(S) |->
            CHOOSE i \in S : Cardinality({j \in S : j <= i}) = k]

\* "for result in batch_results": each result whose linkedin_url is in
\* url_to_index is merged into its row and the row is written at once.
RECURSIVE StreamResults(_, _, _)
StreamResults(frame, out, results) ==
    IF results = <<>> THEN [df |-> frame, out |-> out]
    ELSE LET res == Head(results)
             u == res.linkedin_url
         IN  IF u # "" /\ InUrlToIndex(frame, u)
             THEN LET merged == [frame EXCEPT !.rows[UrlToIndex(frame, u)] =
                                                ApplyParsed(@, res)]
                  IN  StreamResults(merged,
                                    WriteRows(out, merged, <<UrlToIndex(frame, u)>>),
                                    Tail(results))
             ELSE StreamResults(frame, out, Tail(results))

\* The state when the new columns are initialized and the header is written.
StreamInit ==
    \E inp \in Inputs :
        /\ LinkedInColumn(read_csv(inp)) # "none"
        /\ input = inp
        /\ ckpt = <<>>
        /\ output = [cols |-> inp.cols \cup NewColumns, rows |-> <<>>, idx |-> <<>>]
        /\ service = <<>>
        /\ faults = 0
        /\ runs = 1
        /\ pc = "stream_no_url"
        /\ step = 0
        /\ df = [read_csv(inp) EXCEPT !.cols = @ \cup NewColumns]
        /\ batch_start = 0
        /\ batch_number = 0
        /\ tracked = {}
        /\ inflight = {}
        /\ elapsed = 0
        /\ resumed = 0
        /\ executed = <<>>
        /\ sent = <<>>
        /\ polls = 0
        /\ lastSubmit = NoResp
        /\ lastPoll = NoResp
        /\ settled = NoSettled
        /\ polled = {}
        /\ returnedJobs = {}
        /\ doneEarlier = {}
        /\ lastOrdinal = 0
        /\ signalled = FALSE
        /\ sweepEnd = "none"
        /\ total_urls = 0
        /\ last_processed = 0
        /\ next_milestone = 0
        /\ notices = <<>>

\* What the steps of the streaming enricher leave alone.
StreamUnchanged ==
    /\ UNCHANGED <<envVars, ckpt, faults, runs, step, tracked, inflight, elapsed,
                   resumed, executed, polls, lastSubmit, lastPoll, polled,
                   returnedJobs, doneEarlier>>
    /\ UNCHANGED progressVars
    /\ UNCHANGED <<lastOrdinal, sweepVars>>

\* "First, write all rows without LinkedIn URLs"; then the valid URLs are
\* collected and, if there is none, the function returns.
StreamNoUrlRows ==
    /\ pc = "stream_no_url"
    /\ LET marked == [df EXCEPT !.rows = [i \in DOMAIN df.rows |->
                        IF NoIdentifier(df.rows[i].url)
                        THEN [df.rows[i] EXCEPT !.status = "No LinkedIn URL"]
                        ELSE df.rows[i]]]
       IN  /\ df' = marked
           /\ output' = WriteRows(output, marked, NoUrlIndices(marked))
    /\ batch_start' = 0
    /\ batch_number' = 1
    /\ pc' = IF ValidUrls(df) = <<>> THEN "stream_done" ELSE "stream_submit"
    /\ UNCHANGED <<sent, settled>>
    /\ StreamUnchanged

\* The batch loop goes on to the next batch, or ends.
StreamContinue ==
    /\ batch_number' = batch_number + 1
    /\ batch_start' = NextBatchStart(batch_start)
    /\ pc' = IF NextBatchStart(batch_start) < Len(ValidUrls(df))
             THEN "stream_submit" ELSE "stream_done"

\* submit_bulk_job for the batch: a job id, or the batch's rows are marked
\* and written and the loop continues.
StreamSubmit ==
    /\ pc = "stream_submit"
    /\ sent' = Append(sent, CurrentBatch)
    /\ \E resp \in SubmitResponses :
          IF Accepted(resp)
          THEN /\ pc' = "stream_wait"
               /\ UNCHANGED <<df, output, batch_start, batch_number, settled>>
          ELSE LET marked == MarkBatch(df, CurrentBatch,
                                       "Error: Batch submission failed")
               IN  /\ df' = marked
                   /\ output' = WriteRows(output, marked,
                                          BatchIndices(df, CurrentBatch))
                   /\ settled' = [how |-> "submit_failed", urls |-> CurrentBatch,
                                  polls |-> 0]
                   /\ StreamContinue
    /\ StreamUnchanged

\* wait_for_job_completion returns: None (no status data, or the time bound),
\* and the batch's rows are marked and written; or the status data of a job
\* that ended, and each result is merged and its row written.
StreamWait ==
    /\ pc = "stream_wait"
    /\ \/ LET marked == MarkBatch(df, CurrentBatch, "Error: Job failed")
          IN  /\ df' = marked
              /\ output' = WriteRows(output, marked,
                                     BatchIndices(df, CurrentBatch))
              /\ settled' = [how |-> "job_failed", urls |-> CurrentBatch,
                             polls |-> 0]
       \/ \E results \in AnyResultLists(df) :
             LET after == StreamResults(df, output, results)
             IN  /\ df' = after.df
                 /\ output' = after.out
                 /\ settled' = [how |-> "merged", urls |-> CurrentBatch,
                                polls |-> 0]
    /\ StreamContinue
    /\ UNCHANGED sent
    /\ StreamUnchanged

StreamNext == StreamNoUrlRows \/ StreamSubmit \/ StreamWait

StreamSpec == StreamInit /\ [][StreamNext]_vars

\* C38: when the streaming enricher has finished, every row of the input is
\* in the output CSV exactly once: each dataframe index was written once, so
\* the number of rows written is the number of input rows.
EveryRowWrittenOnce ==
    (pc = "stream_done")
        => /\ Len(output.idx) = Len(df.rows)
           /\ \A i \in DOMAIN df.rows :
                 Cardinality({k \in DOMAIN output.idx : output.idx[k] = i}) = 1

====
